---- MODULE Spec2Model ----
(***************************************************************************)
(* A model of package gridtable of chrisfenner/pandoctor: the Writer that  *)
(* lays cells out as a grid table and the Reader that parses one back.     *)
(*                                                                         *)
(* Go slices are modelled as sequences; the element the source calls       *)
(* s[i] is s[i+1] here.  Text is a sequence of one-character strings.      *)
(* An out-of-range slice access, which panics in Go, is the outcome        *)
(* "panic" of the operation it happens in.                                 *)
(***************************************************************************)
EXTENDS Integers, Sequences, FiniteSets, TLC

\* ------------------------------------------------------------------ bounds
\* NextRow is offered while fewer than MaxRows rows exist.
MaxRows == 2
\* RowSpan and ColSpan arguments range over -1..MaxSpan.
MaxSpan == 1

\* The largest spare capacity, in runes, of the slice a line is converted to.
MaxSlack == 1

\* The largest number of lines of a row block handed to the Reader.
MaxBlockLines == 4

\* The largest number of lines that follow the first line of an input text.
MaxTailLines == 3

\* The columns a Config is drawn from (none, and a width below
\* minColumnWidth, among them), the header sizes, and the text of the cells:
\* "A B" cannot be wrapped in a column of width 3, takes two lines in a column
\* of width 4 and one line in a cell that spans both.
ColumnSpecs == { <<>>, <<2>>, <<3>>, <<4>>, <<3, 4>>, <<4, 3>>, <<4, 2>> }
HeaderRows == {0, 1, 2}
Texts == { <<"A", " ", "B">> }

\* ------------------------------------------------------------------ errors
ErrColumnIndexOutOfRange == "ColumnIndexOutOfRange"
ErrShadowedCell == "ShadowedCell"
ErrNegativeSpan == "NegativeSpan"
ErrOverlappingSpans == "OverlappingSpans"
ErrSpanBeyondHeader == "SpanBeyondHeader"
ErrInvalidColumnSpec == "InvalidColumnSpec"
ErrBadWrap == "BadWrap"
ErrMalformedTable == "MalformedTable"
ErrReaderNotDone == "ReaderNotDone"
\* A nil error, io.EOF, and a run-time panic (index or slice out of range).
Nil == "nil"
EOF == "EOF"
Panic == "panic"

minColumnWidth == 3

NL == "\n"

\* The zero rune, which fills the spare capacity of a []rune.
NUL == "0x00"

\* The zero value of Cell, which make([]Cell, n) fills a row with.
ZeroCell == [Text |-> <<>>, RowSpan |-> 0, ColSpan |-> 0]

\* make([]T, n) filled with v.
Make(n, v) == [k \in 1..n |-> v]

Max(a, b) == IF a >= b THEN a ELSE b

\* ------------------------------------------------------------------ state
VARIABLES
    config,      \* Writer.config: [NumHeaderRows, Columns (sequence of widths)]
    currentRow,  \* Writer.currentRow
    cells,       \* Writer.cells
    written,     \* Writer.written
    shadowed,    \* Writer.shadowed
    ret,         \* the last call and what it returned: [op, err, text]
    rstate,      \* "none": no Reader; "idle"; "reading": inside a range over Read()
    scanner,     \* Reader.scanner
    rconfig,     \* Reader.config
    numRows,     \* Reader.numRows
    done,        \* Reader.done
    got          \* the rows Read() has yielded

wvars == <<config, currentRow, cells, written, shadowed>>
rvars == <<rstate, scanner, rconfig, numRows, done, got>>
vars == <<config, currentRow, cells, written, shadowed, ret,
          rstate, scanner, rconfig, numRows, done, got>>

\* The Writer as one value, for the operators below.
W == [config |-> config, currentRow |-> currentRow, cells |-> cells,
      written |-> written, shadowed |-> shadowed]

NumColumns(w) == Len(w.config.Columns)

\* ------------------------------------------------------------------ geometry
RECURSIVE calculateTableWidth(_)
calculateTableWidth(cols) ==
    IF cols = <<>> THEN 1
    ELSE calculateTableWidth(SubSeq(cols, 1, Len(cols) - 1)) + cols[Len(cols)] + 1

RECURSIVE calculateTableHeight(_)
calculateTableHeight(rows) ==
    IF rows = <<>> THEN 1
    ELSE calculateTableHeight(SubSeq(rows, 1, Len(rows) - 1)) + rows[Len(rows)] + 1

\* cellHeight reads rowHeights[row..row+RowSpan]: it panics when the span
\* reaches past the last row.
cellHeightPanics(row, cell, rowHeights) == row + cell.RowSpan >= Len(rowHeights)

RECURSIVE SumHeights(_, _, _)
SumHeights(rowHeights, from, to) ==
    IF from > to THEN 0
    ELSE rowHeights[from + 1] + 1 + SumHeights(rowHeights, from + 1, to)

cellHeight(row, cell, rowHeights) ==
    rowHeights[row + 1] + SumHeights(rowHeights, row + 1, row + cell.RowSpan)

RECURSIVE SumWidths(_, _, _)
SumWidths(colSpec, from, to) ==
    IF from > to THEN 0
    ELSE colSpec[from + 1] + 1 + SumWidths(colSpec, from + 1, to)

cellWidth(column, cell, colSpec) ==
    colSpec[column + 1] + SumWidths(colSpec, column + 1, column + cell.ColSpan)

\* ------------------------------------------------------------------ word wrap
\* wordwrap.WordWrap of muesli/reflow v0.3.0, which lines() drives with
\* KeepNewlines set: st is [buf, space, word, lineLen].
IsNewline(c) == c = NL
IsSpace(c) == c = " "
IsBreakpoint(c) == c = "-"

wwAddSpace(st) ==
    [st EXCEPT !.lineLen = st.lineLen + Len(st.space),
               !.buf = st.buf \o st.space,
               !.space = <<>>]

wwAddWord(st) ==
    IF Len(st.word) > 0
    THEN LET s1 == wwAddSpace(st)
         IN [s1 EXCEPT !.lineLen = s1.lineLen + Len(s1.word),
                       !.buf = s1.buf \o s1.word,
                       !.word = <<>>]
    ELSE st

wwAddNewLine(st) ==
    [st EXCEPT !.buf = st.buf \o <<NL>>, !.lineLen = 0, !.space = <<>>]

wwWriteRune(st, c, limit) ==
    IF IsNewline(c)
    THEN LET s1 == IF Len(st.word) = 0
                   THEN IF st.lineLen + Len(st.space) > limit
                        THEN [st EXCEPT !.lineLen = 0, !.space = <<>>]
                        ELSE [st EXCEPT !.buf = st.buf \o st.space, !.space = <<>>]
                   ELSE st
         IN wwAddNewLine(wwAddWord(s1))
    ELSE IF IsSpace(c)
    THEN LET s1 == wwAddWord(st)
         IN [s1 EXCEPT !.space = s1.space \o <<c>>]
    ELSE IF IsBreakpoint(c)
    THEN LET s1 == wwAddWord(wwAddSpace(st))
         IN [s1 EXCEPT !.buf = s1.buf \o <<c>>, !.lineLen = s1.lineLen + 1]
    ELSE LET s1 == [st EXCEPT !.word = st.word \o <<c>>]
         IN IF /\ s1.lineLen + Len(s1.space) + Len(s1.word) > limit
               /\ Len(s1.word) < limit
            THEN wwAddNewLine(s1)
            ELSE s1

RECURSIVE wwWrite(_, _, _)
wwWrite(st, text, limit) ==
    IF text = <<>> THEN st
    ELSE wwWrite(wwWriteRune(st, Head(text), limit), Tail(text), limit)

\* ww.Write(text); ww.Close(); ww.String()
WordWrap(text, limit) ==
    wwAddWord(wwWrite([buf |-> <<>>, space |-> <<>>, word |-> <<>>, lineLen |-> 0],
                      text, limit)).buf

\* strings.Split(s, sep) for a one-character separator.
RECURSIVE Split(_, _)
Split(s, sep) ==
    IF \A k \in 1..Len(s) : s[k] # sep THEN <<s>>
    ELSE LET k == CHOOSE k \in 1..Len(s) :
                      s[k] = sep /\ \A m \in 1..(k - 1) : s[m] # sep
         IN <<SubSeq(s, 1, k - 1)>> \o Split(SubSeq(s, k + 1, Len(s)), sep)

\* A lines() that allows a line one character longer than the limit.
linesOneOver(column, cell, colSpec) ==
    LET limit == cellWidth(column, cell, colSpec) - 2
        split == Split(WordWrap(cell.Text, limit), NL)
    IN IF \E k \in 1..Len(split) : Len(split[k]) > limit + 1
       THEN [err |-> ErrBadWrap, lines |-> <<>>]
       ELSE [err |-> Nil, lines |-> split]

\* lines(): the wrapped lines of a cell, or ErrBadWrap when a line is longer
\* than the cell's width less the two padding spaces.
lines(column, cell, colSpec) ==
    LET limit == cellWidth(column, cell, colSpec) - 2
        split == Split(WordWrap(cell.Text, limit), NL)
    IN IF \E k \in 1..Len(split) : Len(split[k]) > limit
       THEN [err |-> ErrBadWrap, lines |-> <<>>]
       ELSE [err |-> Nil, lines |-> split]

calculateCellHeight(column, cell, colSpec) ==
    LET l == lines(column, cell, colSpec)
    IN [err |-> l.err, height |-> Len(l.lines)]

\* ------------------------------------------------------------------ Writer
\* Writer.NextRow
\* A NextRow that always appends a row to the shadow grid.
NextRowOfAlwaysExtends(w) ==
    [w EXCEPT !.currentRow = w.currentRow + 1,
              !.shadowed = Append(w.shadowed, Make(NumColumns(w), FALSE)),
              !.cells = Append(w.cells, Make(NumColumns(w), ZeroCell)),
              !.written = Append(w.written, Make(NumColumns(w), FALSE))]

NextRowOf(w) ==
    [w EXCEPT !.currentRow = w.currentRow + 1,
              !.shadowed = IF Len(w.shadowed) = Len(w.cells)
                           THEN Append(w.shadowed, Make(NumColumns(w), FALSE))
                           ELSE w.shadowed,
              !.cells = Append(w.cells, Make(NumColumns(w), ZeroCell)),
              !.written = Append(w.written, Make(NumColumns(w), FALSE))]

\* Checks that also reject a column of the minimum width.
NewWriterErrAtMinimum(cfg) ==
    IF Len(cfg.Columns) < 1 THEN ErrInvalidColumnSpec
    ELSE IF \E j \in 1..Len(cfg.Columns) : cfg.Columns[j] <= minColumnWidth
    THEN ErrInvalidColumnSpec
    ELSE Nil

\* The checks of NewWriter.
NewWriterErr(cfg) ==
    IF Len(cfg.Columns) < 1 THEN ErrInvalidColumnSpec
    ELSE IF \E j \in 1..Len(cfg.Columns) : cfg.Columns[j] < minColumnWidth
    THEN ErrInvalidColumnSpec
    ELSE Nil

\* The Writer NewWriter returns: currentRow -1, then one NextRow.
NewWriterOf(cfg) ==
    NextRowOf([config |-> cfg, currentRow |-> -1, cells |-> <<>>,
               written |-> <<>>, shadowed |-> <<>>])

\* WriteColumn, the range checks: the index, then the signs of the spans, then
\* the last column the span covers.
IndexOutOfRange(w, index) == index < 0 \/ index >= NumColumns(w)

NegativeSpan(cell) == cell.ColSpan < 0 \/ cell.RowSpan < 0

\* A range check that also rejects a span ending on the last column.
SpanOutOfRangeTooEarly(w, index, cell) ==
    index + cell.ColSpan >= NumColumns(w) - 1

SpanOutOfRange(w, index, cell) == index + cell.ColSpan >= NumColumns(w)

\* A header check that lets a span end one row below the header.
SpanBeyondHeaderOffByOne(w, cell) ==
    /\ w.config.NumHeaderRows # 0
    /\ w.currentRow < w.config.NumHeaderRows
    /\ w.currentRow + cell.RowSpan > w.config.NumHeaderRows

\* WriteColumn, the header check: a header cell's row span stays in the header.
SpanBeyondHeader(w, cell) ==
    /\ w.config.NumHeaderRows # 0
    /\ w.currentRow < w.config.NumHeaderRows
    /\ w.currentRow + cell.RowSpan >= w.config.NumHeaderRows

\* WriteColumn, the shadowing checks.  The first reads shadowed[currentRow]
\* and the second written[currentRow], which panic when the row is missing.
\* A WriteColumn that never looks at the target slot's shadow.
TargetShadowedSkipped(w, index) == FALSE

TargetShadowed(w, index) == w.shadowed[w.currentRow + 1][index + 1]

CoversWritten(w, index, cell) ==
    \E j \in (index + 1)..(index + cell.ColSpan) : w.written[w.currentRow + 1][j + 1]

\* An overlap check that only looks down the target's own column.
OverlapsShadowOwnColumn(w, index, cell) ==
    \E i \in w.currentRow..(w.currentRow + cell.RowSpan) :
        /\ i < Len(w.shadowed)
        /\ w.shadowed[i + 1][index + 1]

OverlapsShadow(w, index, cell) ==
    \E i \in w.currentRow..(w.currentRow + cell.RowSpan) :
        /\ i < Len(w.shadowed)
        /\ \E j \in index..(index + cell.ColSpan) : w.shadowed[i + 1][j + 1]

\* WriteColumn, recording the new shadow: shadowed grows to cover the span's
\* rows, and every slot of the footprint but the origin is marked.
\* A marking of the span that does not skip the cell's own slot.
ExtendShadowedWithOrigin(w, index, cell) ==
    LET rows == Max(Len(w.shadowed), w.currentRow + cell.RowSpan + 1)
    IN [i1 \in 1..rows |->
          [j1 \in 1..NumColumns(w) |->
              LET i == i1 - 1
                  j == j1 - 1
              IN IF /\ i >= w.currentRow /\ i <= w.currentRow + cell.RowSpan
                    /\ j >= index /\ j <= index + cell.ColSpan
                 THEN TRUE
                 ELSE IF i1 <= Len(w.shadowed) THEN w.shadowed[i1][j1] ELSE FALSE]]

ExtendShadowed(w, index, cell) ==
    LET rows == Max(Len(w.shadowed), w.currentRow + cell.RowSpan + 1)
    IN [i1 \in 1..rows |->
          [j1 \in 1..NumColumns(w) |->
              LET i == i1 - 1
                  j == j1 - 1
              IN IF /\ i >= w.currentRow /\ i <= w.currentRow + cell.RowSpan
                    /\ j >= index /\ j <= index + cell.ColSpan
                    /\ ~(i = w.currentRow /\ j = index)
                 THEN TRUE
                 ELSE IF i1 <= Len(w.shadowed) THEN w.shadowed[i1][j1] ELSE FALSE]]

\* Writer.WriteColumn: the error it returns and the Writer it leaves.
WriteColumnErr(w, index, cell) ==
    IF IndexOutOfRange(w, index) THEN ErrColumnIndexOutOfRange
    ELSE IF NegativeSpan(cell) THEN ErrNegativeSpan
    ELSE IF SpanOutOfRange(w, index, cell) THEN ErrColumnIndexOutOfRange
    ELSE IF SpanBeyondHeader(w, cell) THEN ErrSpanBeyondHeader
    ELSE IF w.currentRow >= Len(w.shadowed) THEN Panic
    ELSE IF TargetShadowed(w, index) THEN ErrShadowedCell
    ELSE IF cell.ColSpan > 0 /\ w.currentRow >= Len(w.written) THEN Panic
    ELSE IF CoversWritten(w, index, cell) THEN ErrShadowedCell
    ELSE IF OverlapsShadow(w, index, cell) THEN ErrOverlappingSpans
    ELSE IF w.currentRow >= Len(w.cells) THEN Panic
    ELSE Nil

\* A WriteColumn that extends the shadow grid before it checks the call.
WriteColumnOfGrowsFirst(w, index, cell) ==
    IF WriteColumnErr(w, index, cell) = Panic THEN w
    ELSE IF WriteColumnErr(w, index, cell) # Nil
    THEN [w EXCEPT !.shadowed =
             IF Len(w.shadowed) > w.currentRow + 1 THEN w.shadowed
             ELSE Append(w.shadowed, Make(NumColumns(w), FALSE))]
    ELSE [w EXCEPT !.cells[w.currentRow + 1][index + 1] = cell,
                   !.written[w.currentRow + 1][index + 1] = TRUE,
                   !.shadowed = ExtendShadowed(w, index, cell)]

WriteColumnOf(w, index, cell) ==
    IF WriteColumnErr(w, index, cell) # Nil THEN w
    ELSE [w EXCEPT !.cells[w.currentRow + 1][index + 1] = cell,
                   !.written[w.currentRow + 1][index + 1] = TRUE,
                   !.shadowed = ExtendShadowed(w, index, cell)]

\* ------------------------------------------------------------------ Writer.String
\* The last row is dropped from cells when none of its slots is written or
\* shadowed.  written[len(cells)-1] panics when cells is empty.
TrimPanics(w) == Len(w.cells) = 0

AnyWritten(w) ==
    LET lastRow == Len(w.cells) - 1
    IN \E j \in 0..(NumColumns(w) - 1) :
           w.written[lastRow + 1][j + 1] \/ w.shadowed[lastRow + 1][j + 1]

TrimmedCellsKeepAll(w) == w.cells

TrimmedCells(w) ==
    IF AnyWritten(w) THEN w.cells ELSE SubSeq(w.cells, 1, Len(w.cells) - 1)

\* cellHeights[i][j], and whether some cell could not be wrapped.
CellHeights(cs, colSpec) ==
    [i1 \in 1..Len(cs) |->
        [j1 \in 1..Len(colSpec) |-> calculateCellHeight(j1 - 1, cs[i1][j1], colSpec)]]

AnyBadWrap(cellHeights) ==
    \E i1 \in 1..Len(cellHeights) : \E j1 \in 1..Len(cellHeights[i1]) :
        cellHeights[i1][j1].err # Nil

\* First pass: a row is as high as its tallest cell without a row span.
RECURSIVE MaxHeight(_, _, _)
MaxHeight(row, heights, j1) ==
    IF j1 > Len(row) THEN 1
    ELSE LET rest == MaxHeight(row, heights, j1 + 1)
         IN IF row[j1].RowSpan > 0 THEN rest ELSE Max(heights[j1].height, rest)

\* A first pass that leaves every row one line high.
FirstPassOneLine(cs, cellHeights) == [i1 \in 1..Len(cs) |-> 1]

FirstPass(cs, cellHeights) ==
    [i1 \in 1..Len(cs) |-> MaxHeight(cs[i1], cellHeights[i1], 1)]

\* Second pass, one cell: the branch is taken for a cell with ColSpan > 0; the
\* height still missing is spread over rows i..i+ColSpan.  The slice
\* rowHeights[i+1 : i+RowSpan+1] and rowHeights[row] panic past the last row.
SpanCell(st, i, cell, cellH) ==
    IF st.panic \/ ~(cell.ColSpan > 0) THEN st
    ELSE IF i + cell.RowSpan + 1 > Len(st.rowHeights) THEN [st EXCEPT !.panic = TRUE]
    ELSE LET heightToAdd == cellH - st.rowHeights[i + 1]
                            - SumHeights(st.rowHeights, i + 1, i + cell.RowSpan)
             each == (heightToAdd + cell.ColSpan - 1) \div cell.ColSpan
         IN IF ~(heightToAdd > 0) THEN st
            ELSE IF i + cell.ColSpan >= Len(st.rowHeights) THEN [st EXCEPT !.panic = TRUE]
            ELSE [st EXCEPT !.rowHeights =
                     [r1 \in 1..Len(st.rowHeights) |->
                         IF r1 - 1 >= i /\ r1 - 1 <= i + cell.ColSpan
                         THEN st.rowHeights[r1] + each
                         ELSE st.rowHeights[r1]]]

\* Second pass: the cells in row-major order, k = i * columns + j.
RECURSIVE SecondPass(_, _, _, _)
SecondPass(st, cs, cellHeights, k) ==
    LET n == IF cs = <<>> THEN 0 ELSE Len(cs[1])
    IN IF k >= Len(cs) * n THEN st
       ELSE LET i == k \div n
                j == k % n
            IN SecondPass(SpanCell(st, i, cs[i + 1][j + 1], cellHeights[i + 1][j + 1].height),
                          cs, cellHeights, k + 1)

RowHeights(cs, cellHeights) ==
    SecondPass([rowHeights |-> FirstPass(cs, cellHeights), panic |-> FALSE],
               cs, cellHeights, 0)

\* The x of the left inside of column j and the y of the top inside of row i.
CellX(colSpec, j) == 1 + SumWidths(colSpec, 0, j - 1)
CellY(rowHeights, i) == 1 + SumHeights(rowHeights, 0, i - 1)

\* The separator character below cell (i, j).
\* A separator choice that counts the header's rows from 1.
SepOneRowLate(cfg, cs, i, j) ==
    IF cfg.NumHeaderRows # 0 /\ cfg.NumHeaderRows = i + cs[i + 1][j + 1].RowSpan
    THEN "=" ELSE "-"

Sep(cfg, cs, i, j) ==
    IF cfg.NumHeaderRows # 0 /\ cfg.NumHeaderRows = i + 1 + cs[i + 1][j + 1].RowSpan
    THEN "=" ELSE "-"

\* One line of the array across the columns from j on: at every column the
\* column's width of fill[j+1], then the character drawn on the boundary.
RECURSIVE GridLine(_, _, _, _)
GridLine(colSpec, boundary, fill, j) ==
    IF j >= Len(colSpec) THEN <<>>
    ELSE Make(colSpec[j + 1], fill[j + 1]) \o <<boundary>>
         \o GridLine(colSpec, boundary, fill, j + 1)

\* The lines of the array from row i on: the row's height of lines with the
\* '|'s, then the line with the '+'s and the separators below the row.
RECURSIVE GridRows(_, _, _, _)
GridRows(cfg, cs, rowHeights, i) ==
    LET n == Len(cfg.Columns)
    IN IF i >= Len(cs) THEN <<>>
       ELSE Make(rowHeights[i + 1],
                 <<"|">> \o GridLine(cfg.Columns, "|", Make(n, " "), 0))
            \o << <<"+">> \o GridLine(cfg.Columns, "+",
                                      [j1 \in 1..n |-> Sep(cfg, cs, i, j1 - 1)], 0) >>
            \o GridRows(cfg, cs, rowHeights, i + 1)

\* The array after "Draw the top pipes", "Draw the left pipes" and "Draw all
\* the boxes": '+' where a column boundary meets a row boundary, '|' on a
\* column boundary beside a row, the separator on the row boundary below a
\* cell, '-' along the top.  The array is kept as lines: the source's
\* array[x][y] is array[y+1][x+1] here.
DrawGrid(cfg, cs, rowHeights) ==
    << <<"+">> \o GridLine(cfg.Columns, "+", Make(Len(cfg.Columns), "-"), 0) >>
    \o GridRows(cfg, cs, rowHeights, 0)

\* drawCellContents writes array[x+1+dx][y+dy] for every character of every
\* wrapped line: it panics when a line with text lies below the array.
drawPanics(array, y, ls) ==
    \E dy \in 0..(Len(ls) - 1) : Len(ls[dy + 1]) > 0 /\ y + dy >= Len(array)

\* A drawCellContents that draws the lines against the left border.
drawCellContentsNoPadding(array, x, y, row, column, cell, colSpec, rowHeights) ==
    LET width == cellWidth(column, cell, colSpec)
        height == cellHeight(row, cell, rowHeights)
        ls == lines(column, cell, colSpec).lines
    IN [y1 \in 1..Len(array) |->
          [x1 \in 1..Len(array[y1]) |->
              LET dy == (y1 - 1) - y
                  dx == (x1 - 1) - x
              IN IF dy >= 0 /\ dy < Len(ls) /\ dx >= 0 /\ dx < Len(ls[dy + 1])
                 THEN ls[dy + 1][dx + 1]
                 ELSE IF /\ dx >= 0 /\ dx < width
                         /\ dy >= 0 /\ dy < height
                 THEN " "
                 ELSE array[y1][x1]]]

\* drawCellContents: blank the cell's rectangle, then draw its lines one
\* character right of the left border.
drawCellContents(array, x, y, row, column, cell, colSpec, rowHeights) ==
    LET width == cellWidth(column, cell, colSpec)
        height == cellHeight(row, cell, rowHeights)
        ls == lines(column, cell, colSpec).lines
    IN [y1 \in 1..Len(array) |->
          [x1 \in 1..Len(array[y1]) |->
              LET dy == (y1 - 1) - y
                  dx == (x1 - 1) - (x + 1)
              IN IF dy >= 0 /\ dy < Len(ls) /\ dx >= 0 /\ dx < Len(ls[dy + 1])
                 THEN ls[dy + 1][dx + 1]
                 ELSE IF /\ (x1 - 1) - x >= 0 /\ (x1 - 1) - x < width
                         /\ dy >= 0 /\ dy < height
                 THEN " "
                 ELSE array[y1][x1]]]

\* "Draw the contents of all the (non-shadowed) cells", in row-major order.
RECURSIVE DrawContents(_, _, _, _, _)
DrawContents(st, w, cs, rowHeights, k) ==
    LET n == NumColumns(w)
        i == k \div n
        j == k % n
        cell == cs[i + 1][j + 1]
        x == CellX(w.config.Columns, j)
        y == CellY(rowHeights, i)
    IN IF st.panic \/ k >= Len(cs) * n THEN st
       ELSE IF w.shadowed[i + 1][j + 1] THEN DrawContents(st, w, cs, rowHeights, k + 1)
       ELSE IF \/ cellHeightPanics(i, cell, rowHeights)
               \/ drawPanics(st.array, y, lines(j, cell, w.config.Columns).lines)
       THEN [st EXCEPT !.panic = TRUE]
       ELSE DrawContents(
                [st EXCEPT !.array = drawCellContents(st.array, x, y, i, j, cell,
                                                      w.config.Columns, rowHeights)],
                w, cs, rowHeights, k + 1)

\* "Concatenate the array to a string": every line, then a newline.
RECURSIVE Concat(_)
Concat(array) ==
    IF array = <<>> THEN <<>>
    ELSE Head(array) \o <<NL>> \o Concat(Tail(array))

\* Writer.String: the Writer it leaves (cells trimmed), the error and the text.
StringOf(w) ==
    IF TrimPanics(w) THEN [w |-> w, err |-> Panic, text |-> <<>>]
    ELSE
    LET cs == TrimmedCells(w)
        w1 == [w EXCEPT !.cells = cs]
        cellHeights == CellHeights(cs, w.config.Columns)
    IN IF AnyBadWrap(cellHeights) THEN [w |-> w1, err |-> ErrBadWrap, text |-> <<>>]
       ELSE
       LET rh == RowHeights(cs, cellHeights)
       IN IF rh.panic THEN [w |-> w1, err |-> Panic, text |-> <<>>]
          ELSE
          LET drawn == DrawContents(
                           [array |-> DrawGrid(w.config, cs, rh.rowHeights), panic |-> FALSE],
                           w1, cs, rh.rowHeights, 0)
          IN IF drawn.panic THEN [w |-> w1, err |-> Panic, text |-> <<>>]
             ELSE [w |-> w1, err |-> Nil, text |-> Concat(drawn.array)]

\* ------------------------------------------------------------------ Reader
\* bufio.Scanner over the input with the default split function ScanLines:
\* the tokens are the lines without their newline, and the text after the
\* last newline is a token when it is not empty.
ScanLines(text) ==
    LET parts == Split(text, NL)
    IN IF parts[Len(parts)] = <<>> THEN SubSeq(parts, 1, Len(parts) - 1) ELSE parts

\* A Scanner is [tokens, text]: the lines not yet scanned, and the token of
\* the last Scan.  Scan at the end of the input leaves the token empty.
NewScanner(text) == [tokens |-> ScanLines(text), text |-> <<>>]

ScanOk(sc) == sc.tokens # <<>>

Scan(sc) ==
    IF sc.tokens # <<>> THEN [tokens |-> Tail(sc.tokens), text |-> Head(sc.tokens)]
    ELSE [tokens |-> <<>>, text |-> <<>>]

\* validateSeparator, the loop over the characters of one column: st is
\* [headerDecided, isHeader, isHdr, bad].  isHeader, the named result, is
\* assigned; isHdr, the local the cases test and the function returns, is not.
vsRune(st, char) ==
    IF st.bad THEN st
    ELSE IF ~st.headerDecided /\ char = "-"
    THEN [st EXCEPT !.headerDecided = TRUE, !.isHeader = FALSE]
    ELSE IF ~st.headerDecided /\ char = "="
    THEN [st EXCEPT !.headerDecided = TRUE, !.isHeader = TRUE]
    ELSE IF st.headerDecided /\ ~st.isHdr /\ char = "-" THEN st
    ELSE IF st.headerDecided /\ st.isHdr /\ char = "=" THEN st
    ELSE [st EXCEPT !.bad = TRUE]

RECURSIVE vsRunes(_, _)
vsRunes(st, col) ==
    IF col = <<>> THEN st ELSE vsRunes(vsRune(st, Head(col)), Tail(col))

\* validateSeparator, the loop over the columns.
RECURSIVE vsColumns(_, _)
vsColumns(st, cols) ==
    IF st.bad \/ cols = <<>> THEN st
    ELSE IF Len(Head(cols)) < minColumnWidth THEN [st EXCEPT !.bad = TRUE]
    ELSE LET s1 == vsRunes(st, Head(cols))
         IN vsColumns([s1 EXCEPT !.cols = IF s1.bad THEN s1.cols
                                          ELSE Append(s1.cols, Len(Head(cols)))],
                      Tail(cols))

\* validateSeparator: [cols, isHeader, err].  line[1 : len(line)-1] panics
\* for the one-character line "+".
validateSeparator(line) ==
    IF Len(line) = 0 THEN [cols |-> <<>>, isHeader |-> FALSE, err |-> ErrMalformedTable]
    ELSE IF line[1] # "+" \/ line[Len(line)] # "+"
    THEN [cols |-> <<>>, isHeader |-> FALSE, err |-> ErrMalformedTable]
    ELSE IF Len(line) = 1 THEN [cols |-> <<>>, isHeader |-> FALSE, err |-> Panic]
    ELSE LET st == vsColumns([headerDecided |-> FALSE, isHeader |-> FALSE,
                              isHdr |-> FALSE, bad |-> FALSE, cols |-> <<>>],
                             Split(SubSeq(line, 2, Len(line) - 1), "+"))
         IN IF st.bad \/ Len(st.cols) = 0
            THEN [cols |-> <<>>, isHeader |-> FALSE, err |-> ErrMalformedTable]
            ELSE [cols |-> st.cols, isHeader |-> st.isHdr, err |-> Nil]

\* scanToNextSeparator: [scanner, rawContents, isHeader, err].  A line that is
\* no separator is content; a separator must repeat the columns of the
\* Config.  When the lines run out, the scanner's token is tested.
RECURSIVE scanToNextSeparator(_, _, _)
scanToNextSeparator(cfg, sc, result) ==
    LET s1 == Scan(sc)
        v == validateSeparator(s1.text)
    IN IF ~ScanOk(sc)
       THEN [scanner |-> s1, rawContents |-> <<>>, isHeader |-> FALSE,
             err |-> IF Len(s1.text) = 0 THEN EOF ELSE ErrMalformedTable]
       ELSE IF v.err = Panic
       THEN [scanner |-> s1, rawContents |-> <<>>, isHeader |-> FALSE, err |-> Panic]
       ELSE IF v.err # Nil
       THEN scanToNextSeparator(cfg, s1, Append(result, s1.text))
       ELSE IF v.cols # cfg.Columns
       THEN [scanner |-> s1, rawContents |-> <<>>, isHeader |-> FALSE,
             err |-> ErrMalformedTable]
       ELSE [scanner |-> s1, rawContents |-> result, isHeader |-> v.isHeader, err |-> Nil]

\* ------------------------------------------------------------------ strings
\* unicode.IsSpace, on the characters used here.
IsSpaceRune(c) == c \in {" ", NL, "\t", "\r"}

\* strings.TrimSpace
RECURSIVE TrimSpace(_)
TrimSpace(s) ==
    IF s = <<>> THEN s
    ELSE IF IsSpaceRune(s[1]) THEN TrimSpace(Tail(s))
    ELSE IF IsSpaceRune(s[Len(s)]) THEN TrimSpace(SubSeq(s, 1, Len(s) - 1))
    ELSE s

\* strings.Trim(s, "\n")
RECURSIVE TrimNewlines(_)
TrimNewlines(s) ==
    IF s = <<>> THEN s
    ELSE IF s[1] = NL THEN TrimNewlines(Tail(s))
    ELSE IF s[Len(s)] = NL THEN TrimNewlines(SubSeq(s, 1, Len(s) - 1))
    ELSE s

\* strings.Fields: the maximal runs of non-space characters.
RECURSIVE Fields(_)
Fields(s) ==
    IF s = <<>> THEN <<>>
    ELSE IF IsSpaceRune(s[1]) THEN Fields(Tail(s))
    ELSE LET n == IF \E k \in 1..Len(s) : IsSpaceRune(s[k])
                  THEN (CHOOSE k \in 1..Len(s) :
                            IsSpaceRune(s[k]) /\ \A m \in 1..(k - 1) : ~IsSpaceRune(s[m])) - 1
                  ELSE Len(s)
         IN <<SubSeq(s, 1, n)>> \o Fields(SubSeq(s, n + 1, Len(s)))

\* strings.Join
RECURSIVE Join(_, _)
Join(elems, sep) ==
    IF elems = <<>> THEN <<>>
    ELSE IF Len(elems) = 1 THEN elems[1]
    ELSE elems[1] \o sep \o Join(Tail(elems), sep)

\* strings.Split(s, "\n\n"): the pieces between the occurrences of the
\* separator, found left to right without overlap.
RECURSIVE SplitParagraphs(_)
SplitParagraphs(s) ==
    LET At(k) == s[k] = NL /\ s[k + 1] = NL
    IN IF \A k \in 1..(Len(s) - 1) : ~At(k) THEN <<s>>
       ELSE LET k == CHOOSE k \in 1..(Len(s) - 1) : At(k) /\ \A m \in 1..(k - 1) : ~At(m)
            IN <<SubSeq(s, 1, k - 1)>> \o SplitParagraphs(SubSeq(s, k + 2, Len(s)))

\* readCellContents: the text in columns [start, end) of the lines.
RECURSIVE TrimmedLines(_, _, _)
TrimmedLines(ls, start, end) ==
    IF ls = <<>> THEN <<>>
    ELSE TrimSpace(SubSeq(Head(ls), start + 1, end)) \o <<NL>>
         \o TrimmedLines(Tail(ls), start, end)

\* A readCellContents without the final strings.Trim.
readCellContentsUntrimmed(ls, start, end) ==
    LET paragraphs == SplitParagraphs(TrimmedLines(ls, start, end))
        joined == [k \in 1..Len(paragraphs) |-> Join(Fields(paragraphs[k]), <<" ">>)]
    IN Join(joined, <<NL, NL>>)

readCellContents(ls, start, end) ==
    LET paragraphs == SplitParagraphs(TrimmedLines(ls, start, end))
        joined == [k \in 1..Len(paragraphs) |-> Join(Fields(paragraphs[k]), <<" ">>)]
    IN TrimNewlines(Join(joined, <<NL, NL>>))

\* ------------------------------------------------------------------ cellsFromContent
\* A *Cell is <<>> for nil and <<cell>> for a pointer to cell.
NilCell == <<>>

\* A search for spans that takes every column boundary for a right edge.
RECURSIVE FindSpansEveryEdge(_, _, _, _)
FindSpansEveryEdge(st, cfg, firstLine, j) ==
    IF j >= Len(cfg.Columns) THEN st
    ELSE FindSpansEveryEdge(
             [result |-> [st.result EXCEPT ![st.currentCellIndex + 1] =
                             << [Text |-> <<>>, RowSpan |-> 0, ColSpan |-> 0] >>],
              currentCellIndex |-> st.currentCellIndex + 1,
              span |-> 0,
              dx |-> st.dx + 1 + cfg.Columns[j + 1]],
             cfg, firstLine, j + 1)

\* "Check for spans and initialize the result array": st is
\* [result, currentCellIndex, span, dx].
RECURSIVE FindSpans(_, _, _, _)
FindSpans(st, cfg, firstLine, j) ==
    IF j >= Len(cfg.Columns) THEN st
    ELSE LET dx == st.dx + 1 + cfg.Columns[j + 1]
         IN IF firstLine[dx + 1] = "|"
            THEN FindSpans([result |-> [st.result EXCEPT ![st.currentCellIndex + 1] =
                                           << [Text |-> <<>>, RowSpan |-> 0, ColSpan |-> st.span] >>],
                            currentCellIndex |-> st.currentCellIndex + 1 + st.span,
                            span |-> 0,
                            dx |-> dx],
                           cfg, firstLine, j + 1)
            ELSE FindSpans([st EXCEPT !.span = st.span + 1, !.dx = dx], cfg, firstLine, j + 1)

\* The width of the text of the cell at column i: Columns[i].Width once for
\* every column of the span, and one more for every '|' the span removes.
ReadWidth(cfg, i, cell) == (cell.ColSpan + 1) * cfg.Columns[i + 1] + cell.ColSpan

\* "Populate the cells' text based on the raw lines": st is [result, x, panic];
\* lines[k][x : x+dx] panics when it ends past the capacity of the line, which
\* is the length of the lines it is given here.
RECURSIVE ReadTexts(_, _, _, _)
ReadTexts(st, cfg, ls, i) ==
    IF st.panic \/ i >= Len(st.result) THEN st
    ELSE IF st.result[i + 1] = NilCell THEN ReadTexts(st, cfg, ls, i + 1)
    ELSE LET cell == st.result[i + 1][1]
             dx == ReadWidth(cfg, i, cell)
         IN IF st.x + dx > Len(ls[1]) THEN [st EXCEPT !.panic = TRUE]
            ELSE ReadTexts([st EXCEPT !.result[i + 1] =
                                << [cell EXCEPT !.Text = readCellContents(ls, st.x, st.x + dx)] >>,
                            !.x = st.x + dx + 1],
                           cfg, ls, i + 1)

\* []rune(scanner.Text()) with slack runes of capacity past its length: the
\* language fixes the length of the conversion's result, not its capacity,
\* and lines[k][start:end] is checked against the capacity.  The runes past
\* the length are what the allocator left there, zero for the gc runtime.
WithCapacity(ls, slack) == [k \in 1..Len(ls) |-> ls[k] \o Make(slack, NUL)]

\* cellsFromContent: [cells, err]
cellsFromContent(cfg, ls, slack) ==
    LET expectedLineLen == calculateTableWidth(cfg.Columns)
        fail == [cells |-> <<>>, err |-> ErrMalformedTable]
    IN IF Len(ls) = 0 THEN fail
       ELSE IF \E k \in 1..Len(ls) :
                  \/ Len(ls[k]) # expectedLineLen
                  \/ ls[k][1] # "|"
                  \/ ls[k][Len(ls[k])] # "|"
       THEN fail
       ELSE LET spans == FindSpans([result |-> Make(Len(cfg.Columns), NilCell),
                                    currentCellIndex |-> 0, span |-> 0, dx |-> 0],
                                   cfg, ls[1], 0)
                texts == ReadTexts([result |-> spans.result, x |-> 1, panic |-> FALSE],
                                   cfg, WithCapacity(ls, slack), 0)
            IN IF texts.panic THEN [cells |-> <<>>, err |-> Panic]
               ELSE [cells |-> texts.result, err |-> Nil]

\* ------------------------------------------------------------------ actions
Spans == -1..MaxSpan

Cells == [Text : Texts, RowSpan : Spans, ColSpan : Spans]

Configs ==
    { [NumHeaderRows |-> h, Columns |-> c] :
          h \in HeaderRows,
          c \in ColumnSpecs }

\* A Writer was returned, no call on it has failed and its text has not
\* been handed to a Reader: after an error (or a panic) the caller makes no
\* further call on the Writer.
Running == ret.op # "Init" /\ ret.err = Nil /\ rstate = "none"

Return(op, err, text) == [op |-> op, err |-> err, text |-> text]

SetWriter(w) ==
    /\ currentRow' = w.currentRow
    /\ cells' = w.cells
    /\ written' = w.written
    /\ shadowed' = w.shadowed

NoWriter ==
    /\ currentRow = -1
    /\ cells = <<>>
    /\ written = <<>>
    /\ shadowed = <<>>
    /\ ret = Return("Init", Nil, <<>>)

NoReader ==
    /\ rstate = "none"
    /\ scanner = NewScanner(<<>>)
    /\ rconfig = [NumHeaderRows |-> 0, Columns |-> <<>>]
    /\ numRows = 0
    /\ done = FALSE
    /\ got = <<>>

Init ==
    /\ config \in Configs
    /\ NoWriter
    /\ NoReader

NewWriter ==
    /\ ret.op = "Init"
    /\ IF NewWriterErr(config) # Nil
       THEN UNCHANGED <<currentRow, cells, written, shadowed>>
       ELSE SetWriter(NewWriterOf(config))
    /\ ret' = Return("NewWriter", NewWriterErr(config), <<>>)
    /\ UNCHANGED <<config, rvars>>

WriteColumn(index, cell) ==
    /\ Running
    /\ SetWriter(WriteColumnOf(W, index, cell))
    /\ ret' = Return("WriteColumn", WriteColumnErr(W, index, cell), <<>>)
    /\ UNCHANGED <<config, rvars>>

NextRow ==
    /\ Running
    /\ Len(written) < MaxRows
    /\ SetWriter(NextRowOf(W))
    /\ ret' = Return("NextRow", Nil, <<>>)
    /\ UNCHANGED <<config, rvars>>

String ==
    /\ Running
    /\ LET r == StringOf(W)
       IN /\ SetWriter(r.w)
          /\ ret' = Return("String", r.err, r.text)
    /\ UNCHANGED <<config, rvars>>

Indexes == -1..Max(Len(config.Columns), 1)

Next ==
    \/ NewWriter
    \/ \E index \in Indexes, cell \in Cells : WriteColumn(index, cell)
    \/ NextRow
    \/ String

Spec == Init /\ [][Next]_vars

\* ------------------------------------------------------------------ Reader actions
\* NewReader: the first line must be a separator, and not the header's.
NewReaderErr(text) ==
    LET sc == NewScanner(text)
        v == validateSeparator(Scan(sc).text)
    IN IF ~ScanOk(sc) THEN ErrMalformedTable
       ELSE IF v.err # Nil THEN v.err
       ELSE IF v.isHeader THEN ErrMalformedTable
       ELSE Nil

NewReader(text) ==
    /\ rstate = "none"
    /\ IF NewReaderErr(text) # Nil
       THEN UNCHANGED rvars
       ELSE /\ rstate' = "idle"
            /\ scanner' = Scan(NewScanner(text))
            /\ rconfig' = [NumHeaderRows |-> 0,
                           Columns |-> validateSeparator(Scan(NewScanner(text)).text).cols]
            /\ UNCHANGED <<numRows, done, got>>
    /\ ret' = Return("NewReader", NewReaderErr(text), <<>>)
    /\ UNCHANGED wvars

\* A Read that does not test r.done before it scans.
ReadWithoutDoneCheck ==
    /\ rstate \in {"idle", "reading"}
    /\ ret.err # Panic
    /\ IF FALSE
       THEN /\ ret' = Return("Read", EOF, <<>>)
            /\ UNCHANGED rvars
       ELSE \E slack \in 0..MaxSlack :
            LET s == scanToNextSeparator(rconfig, scanner, <<>>)
                c == cellsFromContent(rconfig, s.rawContents, slack)
            IN /\ scanner' = s.scanner
               /\ IF s.err = EOF
                  THEN /\ done' = TRUE
                       /\ rstate' = "idle"
                       /\ ret' = Return("ReadEnd", Nil, <<>>)
                       /\ UNCHANGED <<rconfig, numRows, got>>
                  ELSE IF s.err # Nil
                  THEN /\ rstate' = "idle"
                       /\ ret' = Return("Read", s.err, <<>>)
                       /\ UNCHANGED <<rconfig, numRows, done, got>>
                  ELSE IF c.err # Nil
                  THEN /\ rstate' = "idle"
                       /\ ret' = Return("Read", c.err, <<>>)
                       /\ UNCHANGED <<rconfig, numRows, done, got>>
                  ELSE /\ numRows' = numRows + 1
                       /\ rconfig' = IF s.isHeader
                                     THEN [rconfig EXCEPT !.NumHeaderRows = numRows + 1]
                                     ELSE rconfig
                       /\ got' = Append(got, c.cells)
                       /\ rstate' = "reading"
                       /\ ret' = Return("Read", Nil, <<>>)
                       /\ UNCHANGED done
    /\ UNCHANGED wvars

\* Reader.Read, from where the consumer's range statement asks for the next
\* pair to where the iterator yields one or returns: op is "Read" when a pair
\* (cells, err) is yielded, "ReadEnd" when the iterator returns without one.
Read ==
    /\ rstate \in {"idle", "reading"}
    /\ ret.err # Panic
    /\ IF rstate = "idle" /\ done
       THEN /\ ret' = Return("Read", EOF, <<>>)
            /\ UNCHANGED rvars
       ELSE \E slack \in 0..MaxSlack :
            LET s == scanToNextSeparator(rconfig, scanner, <<>>)
                c == cellsFromContent(rconfig, s.rawContents, slack)
            IN /\ scanner' = s.scanner
               /\ IF s.err = EOF
                  THEN /\ done' = TRUE
                       /\ rstate' = "idle"
                       /\ ret' = Return("ReadEnd", Nil, <<>>)
                       /\ UNCHANGED <<rconfig, numRows, got>>
                  ELSE IF s.err # Nil
                  THEN /\ rstate' = "idle"
                       /\ ret' = Return("Read", s.err, <<>>)
                       /\ UNCHANGED <<rconfig, numRows, done, got>>
                  ELSE IF c.err # Nil
                  THEN /\ rstate' = "idle"
                       /\ ret' = Return("Read", c.err, <<>>)
                       /\ UNCHANGED <<rconfig, numRows, done, got>>
                  ELSE /\ numRows' = numRows + 1
                       /\ rconfig' = IF s.isHeader
                                     THEN [rconfig EXCEPT !.NumHeaderRows = numRows + 1]
                                     ELSE rconfig
                       /\ got' = Append(got, c.cells)
                       /\ rstate' = "reading"
                       /\ ret' = Return("Read", Nil, <<>>)
                       /\ UNCHANGED done
    /\ UNCHANGED wvars

\* The consumer leaves the range statement: yield returns false.
Break ==
    /\ rstate = "reading"
    /\ rstate' = "idle"
    /\ ret' = Return("Break", Nil, <<>>)
    /\ UNCHANGED <<wvars, scanner, rconfig, numRows, done, got>>

\* A GetConfig that is content with one row read.
GetConfigAfterFirstRow ==
    /\ rstate \in {"idle", "reading"}
    /\ ret.err # Panic
    /\ ret' = Return("GetConfig",
                     IF done \/ numRows > 0 THEN Nil ELSE ErrReaderNotDone, <<>>)
    /\ UNCHANGED <<wvars, rvars>>

\* Reader.GetConfig returns &r.config, or ErrReaderNotDone.
GetConfig ==
    /\ rstate \in {"idle", "reading"}
    /\ ret.err # Panic
    /\ ret' = Return("GetConfig", IF done THEN Nil ELSE ErrReaderNotDone, <<>>)
    /\ UNCHANGED <<wvars, rvars>>

\* ------------------------------------------------------------------ round trip
\* Tables of cells without spans, rendered and read back: the Writer is
\* given valid calls only, and the text String returns is handed to NewReader.
PlainTexts == { <<"A">>, <<"A", " ", "B">> }
PlainColumns == { <<3>>, <<5>>, <<3, 5>>, <<5, 4>> }

InitRoundTrip ==
    /\ config \in { [NumHeaderRows |-> h, Columns |-> c] :
                        h \in HeaderRows, c \in PlainColumns }
    /\ NoWriter
    /\ NoReader

NextRoundTrip ==
    \/ NewWriter
    \/ \E index \in 0..(Len(config.Columns) - 1), text \in PlainTexts :
           WriteColumn(index, [Text |-> text, RowSpan |-> 0, ColSpan |-> 0])
    \/ NextRow
    \/ String
    \/ (ret.op = "String" /\ ret.err = Nil /\ NewReader(ret.text))
    \/ Read
    \/ Break
    \/ GetConfig

SpecRoundTrip == InitRoundTrip /\ [][NextRoundTrip]_vars

\* ------------------------------------------------------------------ reading spans
\* Tables with column spans, rendered and read back row by row: columns of
\* equal and of unequal widths, cells of one word.
SpanTexts == { <<"A">> }
SpanColumns == { <<4, 4>>, <<5, 4>>, <<5, 3>>, <<3, 5>> }

InitSpanRead ==
    /\ config \in { [NumHeaderRows |-> h, Columns |-> c] :
                        h \in {0}, c \in SpanColumns }
    /\ NoWriter
    /\ NoReader

NextSpanRead ==
    \/ NewWriter
    \/ \E index \in 0..(Len(config.Columns) - 1), text \in SpanTexts,
          colSpan \in 0..MaxSpan :
           WriteColumn(index, [Text |-> text, RowSpan |-> 0, ColSpan |-> colSpan])
    \/ NextRow
    \/ String
    \/ (ret.op = "String" /\ ret.err = Nil /\ NewReader(ret.text))
    \/ Read

SpecSpanRead == InitSpanRead /\ [][NextSpanRead]_vars

\* ------------------------------------------------------------------ reading a block
\* A Reader on a text that was not rendered by a Writer: the caller holds the
\* text, and no Writer exists.
NoWriterInput(texts) ==
    /\ config = [NumHeaderRows |-> 0, Columns |-> <<>>]
    /\ currentRow = -1
    /\ cells = <<>>
    /\ written = <<>>
    /\ shadowed = <<>>
    /\ ret \in { Return("Init", Nil, t) : t \in texts }

\* The sequences of 1..n elements of S.
RECURSIVE SeqsUpTo(_, _)
SeqsUpTo(S, n) ==
    IF n = 0 THEN {}
    ELSE LET shorter == SeqsUpTo(S, n - 1)
         IN { <<x>> : x \in S } \cup shorter \cup { Append(q, x) : q \in shorter, x \in S }

\* The text whose lines are ls, each ended by a newline.
RECURSIVE Unlines(_)
Unlines(ls) == IF ls = <<>> THEN <<>> ELSE Head(ls) \o <<NL>> \o Unlines(Tail(ls))

\* Tables of one column of width 5 and one row block of 1..MaxBlockLines
\* lines, each line blank or holding one word.
BlockSeparator == <<"+", "-", "-", "-", "-", "-", "+">>
BlockLines == { <<"|", " ", "A", " ", " ", " ", "|">>,
                <<"|", " ", " ", " ", " ", " ", "|">>,
                <<"|", " ", " ", "B", " ", " ", "|">> }
BlockTexts ==
    { Unlines(<<BlockSeparator>> \o b \o <<BlockSeparator>>) :
          b \in SeqsUpTo(BlockLines, MaxBlockLines) }

InitBlock ==
    /\ NoWriterInput(BlockTexts)
    /\ NoReader

NextBlock ==
    \/ (ret.op = "Init" /\ NewReader(ret.text))
    \/ Read

SpecBlock == InitBlock /\ [][NextBlock]_vars

\* ------------------------------------------------------------------ reading any input
\* A Reader on texts that need not be tables: a first line that is or is not
\* a separator, and after the separator of one column of width 3 up to
\* MaxTailLines lines, each a content line, the separator, a separator of
\* another width, a '+' line of segments too narrow, or a blank line.
InputSeparator == <<"+", "-", "-", "-", "+">>
ContentLine == <<"|", " ", "A", " ", "|">>
FirstLines ==
    { InputSeparator,
      <<"+", "-", "-", "-", "+", "-", "-", "-", "-", "+">>,
      <<"+", "-", "-", "+">>,
      <<"|", "-", "-", "-", "|">>,
      <<"+", "-", "-", "-">>,
      <<"-", "-", "-", "+">>,
      <<"+", "-", "!", "-", "+">>,
      <<"+", "-", "=", "-", "+">>,
      <<"+", "=", "=", "=", "+">>,
      <<"+", "=", "-", "-", "+">>,
      <<"+">>,
      <<"+", "-", "-", "-", "+", "-", "-", "+">> }
TailLines ==
    { ContentLine,
      InputSeparator,
      <<"+", "-", "-", "-", "-", "+">>,
      <<"+", "-", "+", "-", "+">>,
      <<>> }
InputTexts ==
    {<<>>}
    \cup { Unlines(<<f>>) : f \in FirstLines }
    \cup { Unlines(<<f, ContentLine, f>>) : f \in FirstLines }
    \cup { Unlines(<<InputSeparator>> \o t) : t \in SeqsUpTo(TailLines, MaxTailLines) }

InitInput ==
    /\ NoWriterInput(InputTexts)
    /\ NoReader

NextInput ==
    \/ (ret.op = "Init" /\ NewReader(ret.text))
    \/ Read
    \/ Break
    \/ GetConfig

SpecInput == InitInput /\ [][NextInput]_vars

\* ------------------------------------------------------------------ rendering
\* Tables of cells with spans and texts of several lines, rendered: the
\* Writer is given calls with an index of the table and spans that are not
\* negative.  "A B A B" wraps to four lines in a column of width 4; "AB" is
\* one word, too long for a column of width 3.
RenderTexts == { <<"A", " ", "B", " ", "A", " ", "B">>, <<"A", "B">> }
RenderColumns == { <<4>>, <<3, 4>> }

InitRender ==
    /\ config \in { [NumHeaderRows |-> h, Columns |-> c] :
                        h \in {0}, c \in RenderColumns }
    /\ NoWriter
    /\ NoReader

NextRender ==
    \/ NewWriter
    \/ \E index \in 0..(Len(config.Columns) - 1), text \in RenderTexts,
          rowSpan \in 0..MaxSpan, colSpan \in 0..MaxSpan :
           WriteColumn(index, [Text |-> text, RowSpan |-> rowSpan, ColSpan |-> colSpan])
    \/ NextRow
    \/ String

SpecRender == InitRender /\ [][NextRender]_vars

\* ------------------------------------------------------------------ claims
\* NewWriter has returned a Writer.
HasWriter == ret.op # "Init" /\ ~(ret.op = "NewWriter" /\ ret.err # Nil)

\* The calls whose spans are not negative.
NonNegative(cell) == cell.RowSpan >= 0 /\ cell.ColSpan >= 0

\* C7: with N columns and non-negative spans, WriteColumn(index, cell) fails
\* with ColumnIndexOutOfRange exactly when index < 0, index >= N or
\* index + ColSpan >= N; a span that ends on the last column is in range.
C7_ColumnIndexOutOfRange ==
    HasWriter =>
        \A index \in Indexes, cell \in Cells :
            NonNegative(cell) =>
                ( WriteColumnErr(W, index, cell) = ErrColumnIndexOutOfRange
                  <=> \/ index < 0
                      \/ index >= Len(config.Columns)
                      \/ index + cell.ColSpan >= Len(config.Columns) )

\* A cell whose column span ends on the table's last column has just been
\* accepted.
C7_Witness ==
    /\ ret.op = "WriteColumn"
    /\ ret.err = Nil
    /\ \E j \in 1..Len(config.Columns) :
           /\ written[currentRow + 1][j]
           /\ cells[currentRow + 1][j].ColSpan > 0
           /\ (j - 1) + cells[currentRow + 1][j].ColSpan = Len(config.Columns) - 1

\* The range and sign checks of WriteColumn accept the call.
InRange(index, cell) ==
    /\ 0 <= index
    /\ index + cell.ColSpan < Len(config.Columns)
    /\ NonNegative(cell)

\* C8: with NumHeaderRows = h, a WriteColumn in current row r with a valid
\* index (one the range checks accept) and non-negative spans fails with
\* SpanBeyondHeader exactly when h > 0, r < h and r + RowSpan >= h; with h = 0
\* or in a body row no row span is rejected for crossing the header.
C8_SpanBeyondHeader ==
    HasWriter =>
        \A index \in Indexes, cell \in Cells :
            InRange(index, cell) =>
                ( WriteColumnErr(W, index, cell) = ErrSpanBeyondHeader
                  <=> /\ config.NumHeaderRows > 0
                      /\ currentRow < config.NumHeaderRows
                      /\ currentRow + cell.RowSpan >= config.NumHeaderRows )

\* A row span that reaches the first body row from the last header row has
\* just been rejected.
C8_Witness ==
    /\ ret.op = "WriteColumn"
    /\ ret.err = ErrSpanBeyondHeader
    /\ config.NumHeaderRows > 0
    /\ currentRow = config.NumHeaderRows - 1

\* The row span of a call in the current row crosses the header boundary.
CrossesHeader(cell) ==
    /\ config.NumHeaderRows > 0
    /\ currentRow < config.NumHeaderRows
    /\ currentRow + cell.RowSpan >= config.NumHeaderRows

\* The slots (row, column), counted from 0, that hold a cell an earlier
\* successful WriteColumn stored.
Stored ==
    { s \in (0..(Len(cells) - 1)) \X (0..(Len(config.Columns) - 1)) :
          s[1] < Len(written) /\ written[s[1] + 1][s[2] + 1] }

\* The footprint of a cell with origin (r, c): rows r..r+RowSpan by columns
\* c..c+ColSpan.
Footprint(r, c, cell) ==
    (r..(r + cell.RowSpan)) \X (c..(c + cell.ColSpan))

StoredFootprint(s) == Footprint(s[1], s[2], cells[s[1] + 1][s[2] + 1])

\* Slot (r, c) lies in the span of a stored cell whose origin is another slot.
ShadowedBySpan(r, c) ==
    \E s \in Stored : s # <<r, c>> /\ <<r, c>> \in StoredFootprint(s)

\* A slot of the current row that the call's column span would cover holds a
\* written cell.
CoversWrittenSlot(index, cell) ==
    \E j \in (index + 1)..(index + cell.ColSpan) : written[currentRow + 1][j + 1]

\* C4 as stated: WriteColumn(index, cell) with a valid index and non-negative
\* spans fails with ShadowedCell when the target slot is shadowed by a span
\* written earlier, and when a slot its column span would cover was written.
C4_AsStated ==
    HasWriter =>
        \A index \in Indexes, cell \in Cells :
            ( /\ InRange(index, cell)
              /\ ShadowedBySpan(currentRow, index) \/ CoversWrittenSlot(index, cell) )
            => WriteColumnErr(W, index, cell) = ErrShadowedCell

\* C4: WriteColumn(index, cell) with a valid index, non-negative spans and a
\* row span that does not cross the header boundary fails with ShadowedCell
\* when the target slot is shadowed by a span written earlier, and when a slot
\* of the current row that its column span would cover was already written.
C4_ShadowedCell ==
    HasWriter =>
        \A index \in Indexes, cell \in Cells :
            ( /\ InRange(index, cell)
              /\ ~CrossesHeader(cell)
              /\ ShadowedBySpan(currentRow, index) \/ CoversWrittenSlot(index, cell) )
            => WriteColumnErr(W, index, cell) = ErrShadowedCell

\* A write to a slot that a stored cell's span covers has just been rejected.
C4_Witness ==
    /\ ret.op = "WriteColumn"
    /\ ret.err = ErrShadowedCell
    /\ \E index \in 0..(Len(config.Columns) - 1) : ShadowedBySpan(currentRow, index)

\* The Writer's shadow grid marks the target slot of the current row.
TargetMarked(index) ==
    currentRow < Len(shadowed) /\ shadowed[currentRow + 1][index + 1]

\* Some slot of the call's footprint other than its origin lies in the span of
\* a stored cell.
OverlapsStoredSpan(index, cell) ==
    \E t \in Footprint(currentRow, index, cell) :
        t # <<currentRow, index>> /\ ShadowedBySpan(t[1], t[2])

\* C5 as stated: WriteColumn fails with OverlappingSpans when the target slot
\* is not shadowed, no covered slot of the current row is written, and some
\* slot of the footprint other than the origin is shadowed by another span.
C5_AsStated ==
    HasWriter =>
        \A index \in Indexes, cell \in Cells :
            ( /\ InRange(index, cell)
              /\ ~TargetMarked(index)
              /\ ~CoversWrittenSlot(index, cell)
              /\ OverlapsStoredSpan(index, cell) )
            => WriteColumnErr(W, index, cell) = ErrOverlappingSpans

\* C5: a WriteColumn that passes the range, sign and header checks fails with
\* OverlappingSpans when the target slot is not shadowed, no covered slot of
\* the current row is written, and some slot of its footprint other than the
\* origin is already shadowed by the span of an earlier-written cell.
C5_OverlappingSpans ==
    HasWriter =>
        \A index \in Indexes, cell \in Cells :
            ( /\ InRange(index, cell)
              /\ ~CrossesHeader(cell)
              /\ ~TargetMarked(index)
              /\ ~CoversWrittenSlot(index, cell)
              /\ OverlapsStoredSpan(index, cell) )
            => WriteColumnErr(W, index, cell) = ErrOverlappingSpans

\* A call has just been rejected for overlapping a stored span that reaches
\* the current row from the row above.
C5_Witness ==
    /\ ret.op = "WriteColumn"
    /\ ret.err = ErrOverlappingSpans
    /\ currentRow > 0
    /\ \E s \in Stored : s[1] < currentRow /\ cells[s[1] + 1][s[2] + 1].RowSpan > 0

\* The footprint of the call shares a slot with the footprint of a stored cell.
SharesSlot(index, cell) ==
    \E s \in Stored :
        Footprint(currentRow, index, cell) \cap StoredFootprint(s) # {}

\* C3 as stated: when the footprint of a WriteColumn call shares a slot with
\* the footprint of a cell an earlier successful call stored, the call fails
\* with OverlappingSpans or ShadowedCell (calls the range, sign or header
\* checks reject are left aside).
C3_AsStated ==
    [][ \A index \in Indexes, cell \in Cells :
            ( /\ WriteColumn(index, cell)
              /\ InRange(index, cell)
              /\ ~CrossesHeader(cell)
              /\ SharesSlot(index, cell) )
            => ret'.err \in {ErrOverlappingSpans, ErrShadowedCell} ]_vars

\* C6 as stated: a WriteColumn whose target slot in the current row was
\* already written by an earlier successful WriteColumn fails with
\* ShadowedCell (calls the range, sign or header checks reject are left aside).
C6_AsStated ==
    [][ \A index \in Indexes, cell \in Cells :
            ( /\ WriteColumn(index, cell)
              /\ InRange(index, cell)
              /\ ~CrossesHeader(cell)
              /\ written[currentRow + 1][index + 1] )
            => ret'.err = ErrShadowedCell ]_vars

\* C9 as stated: on a Writer reached by NewWriter, NextRow calls and
\* successful WriteColumn calls (cells and written still have the same number
\* of rows: no earlier String has trimmed a row), String returns the text or
\* BadWrap and never fails in another way.
C9_AsStated ==
    [][ (String /\ Len(cells) = Len(written))
        => ret'.err \in {Nil, ErrBadWrap} ]_vars

\* The lines of the text String returned last, without their newlines.
TextLines ==
    LET ls == Split(ret.text, NL)
    IN SubSeq(ls, 1, Len(ls) - 1)

\* The separator lines of the text, top line first: the lines that start
\* with '+'.  SeparatorLines[i + 2] is the line directly below row i.
SeparatorLines == SelectSeq(TextLines, LAMBDA l : Len(l) > 0 /\ l[1] = "+")

\* The position, counted from 1, of the '+' that ends column j (from 1) in a
\* separator line; the '+' at position 1 starts the line.
RECURSIVE BoundaryAt(_)
BoundaryAt(j) ==
    IF j = 0 THEN 1 ELSE BoundaryAt(j - 1) + config.Columns[j] + 1

\* A separator line that uses '=' in every column segment.
IsHeaderSeparator(l) ==
    /\ Len(l) = BoundaryAt(Len(config.Columns))
    /\ \A p \in 1..Len(l) :
           l[p] = IF \E j \in 0..Len(config.Columns) : p = BoundaryAt(j)
                  THEN "+" ELSE "="

HasNoEquals(l) == \A p \in 1..Len(l) : l[p] # "="

FitsOneLine(text, width) ==
    /\ Len(text) <= width - 2
    /\ \A p \in 1..Len(text) : text[p] # NL

\* Every cell of the rows String rendered is a non-spanning cell whose text
\* fits on one line of its column.
PlainGrid ==
    \A i \in 1..Len(cells), j \in 1..Len(config.Columns) :
        /\ cells[i][j].RowSpan = 0
        /\ cells[i][j].ColSpan = 0
        /\ FitsOneLine(cells[i][j].Text, config.Columns[j])

\* The separator line of a table without a header, from column j (from 1) on.
RECURSIVE PlainSeparator(_)
PlainSeparator(j) ==
    IF j > Len(config.Columns) THEN <<>>
    ELSE Make(config.Columns[j], "-") \o <<"+">> \o PlainSeparator(j + 1)

\* The line of row i (from 1) from column j (from 1) on: one space, the cell
\* text, spaces up to the column width, and '|'.
RECURSIVE PlainRow(_, _)
PlainRow(i, j) ==
    IF j > Len(config.Columns) THEN <<>>
    ELSE <<" ">> \o cells[i][j].Text
         \o Make(config.Columns[j] - 1 - Len(cells[i][j].Text), " ")
         \o <<"|">> \o PlainRow(i, j + 1)

\* The row lines from row i (from 1) on, each followed by the separator line.
RECURSIVE PlainRows(_)
PlainRows(i) ==
    IF i > Len(cells) THEN <<>>
    ELSE <<"|">> \o PlainRow(i, 1) \o <<NL>>
         \o <<"+">> \o PlainSeparator(1) \o <<NL>>
         \o PlainRows(i + 1)

\* C2: for a grid of R rows by C columns of non-spanning cells whose text fits
\* on one line, rendered with no header, String returns exactly the separator
\* line, then for each row the row line ('|', then per column one space, the
\* text, spaces up to the column width, and '|') followed by the separator
\* line, every line ending with a newline.  The R rows are the rows String
\* renders: a last row in which nothing was written is not one of them.
C2_PlainRendering ==
    (ret.op = "String" /\ ret.err = Nil /\ config.NumHeaderRows = 0 /\ PlainGrid) =>
        ret.text = <<"+">> \o PlainSeparator(1) \o <<NL>> \o PlainRows(1)

\* A table of two rows by two columns without a header, a cell of which holds
\* a text of two words, has been rendered.
C2_Witness ==
    /\ ret.op = "String"
    /\ ret.err = Nil
    /\ config.NumHeaderRows = 0
    /\ PlainGrid
    /\ Len(cells) = 2
    /\ Len(config.Columns) = 2
    /\ \E i \in 1..2, j \in 1..2 : Len(cells[i][j].Text) = 3

\* The rows a Reader should yield for the rendered grid: one cell per slot,
\* with the slot's text and no spans.
ExpectedRows ==
    [i \in 1..Len(cells) |->
        [j \in 1..Len(config.Columns) |->
            << [Text |-> cells[i][j].Text, RowSpan |-> 0, ColSpan |-> 0] >>]]

\* C1 as stated: for a Config with NumHeaderRows between 0 and the number of
\* rows and a grid of non-spanning cells whose text fits on one line, reading
\* the text String returned succeeds (NewReader and every Read return no
\* error) and, once the rows are exhausted, has yielded the same cells row by
\* row and a Config with the same column widths and the same NumHeaderRows.
C1_AsStated ==
    (rstate # "none" /\ PlainGrid /\ config.NumHeaderRows <= Len(cells)) =>
        /\ ret.op = "NewReader" => ret.err = Nil
        /\ (ret.op = "Read" /\ ~done) => ret.err = Nil
        /\ done => /\ got = ExpectedRows
                   /\ rconfig.Columns = config.Columns
                   /\ rconfig.NumHeaderRows = config.NumHeaderRows

\* A line of the text that starts with '+': a separator line, or what a row
\* span has left of one.
IsSeparatorLine(l) == Len(l) > 0 /\ l[1] = "+"

\* The number, from 1, in TextLines of the k-th separator line (k from 1):
\* row i (from 0) lies between SepIndex(i + 1) and SepIndex(i + 2).
SepIndex(k) ==
    CHOOSE n \in 1..Len(TextLines) :
        /\ IsSeparatorLine(TextLines[n])
        /\ Cardinality({m \in 1..n : IsSeparatorLine(TextLines[m])}) = k

BorderChars == {"|", "-", "=", "+"}

IsBoundary(p) == \E j \in 0..Len(config.Columns) : p = BoundaryAt(j)

\* The rectangle of the stored cell at slot s = (row, column): the text lines
\* and the positions strictly inside its borders, and the borders themselves.
RectTop(s) == SepIndex(s[1] + 1)
RectBottom(s) == SepIndex(s[1] + cells[s[1] + 1][s[2] + 1].RowSpan + 2)
RectLeft(s) == BoundaryAt(s[2])
RectRight(s) == BoundaryAt(s[2] + cells[s[1] + 1][s[2] + 1].ColSpan + 1)

InteriorIsClear(s) ==
    \A n \in (RectTop(s) + 1)..(RectBottom(s) - 1),
       p \in (RectLeft(s) + 1)..(RectRight(s) - 1) :
        TextLines[n][p] \notin BorderChars

PerimeterIsDrawn(s) ==
    /\ \A n \in {RectTop(s), RectBottom(s)}, p \in RectLeft(s)..RectRight(s) :
           IF IsBoundary(p) THEN TextLines[n][p] = "+"
           ELSE TextLines[n][p] \in {"-", "="}
    /\ \A n \in (RectTop(s) + 1)..(RectBottom(s) - 1), p \in {RectLeft(s), RectRight(s)} :
           TextLines[n][p] = IF IsSeparatorLine(TextLines[n]) THEN "+" ELSE "|"

Spanning(s) ==
    cells[s[1] + 1][s[2] + 1].RowSpan > 0 \/ cells[s[1] + 1][s[2] + 1].ColSpan > 0

\* C11 as stated: in the rendered text, for every written cell with a column
\* span or a row span, no border character ('|', '-', '=', '+') remains
\* strictly inside the cell's rectangle, and the borders on the rectangle's
\* perimeter, the '+' junctions included, stay drawn.
C11_AsStated ==
    (ret.op = "String" /\ ret.err = Nil) =>
        \A s \in Stored : Spanning(s) => InteriorIsClear(s) /\ PerimeterIsDrawn(s)

\* The number of lines the text of the stored cell at slot s wraps to.
WrappedLines(s) ==
    Len(lines(s[2], cells[s[1] + 1][s[2] + 1], config.Columns).lines)

\* The height of the rectangle of the stored cell at slot s in the text: the
\* heights of the rows it spans and one separator line per additional row.
RectHeight(s) == RectBottom(s) - RectTop(s) - 1

\* C12 as stated: in the text String returns, every written cell with
\* RowSpan > 0 has a wrapped line count no larger than the total height of the
\* rows it spans (their heights plus one separator line per additional row):
\* the spanned rows are grown when its content needs more height.
C12_AsStated ==
    (ret.op = "String" /\ ret.err = Nil) =>
        \A s \in Stored :
            cells[s[1] + 1][s[2] + 1].RowSpan > 0 => WrappedLines(s) <= RectHeight(s)

\* The effective width of the stored cell at slot s: the widths of the
\* columns it spans and one character per boundary the span removes.
EffectiveWidth(s) == RectRight(s) - RectLeft(s) - 1

\* The text holds a token, a run of characters without whitespace or hyphen,
\* that is longer than limit.
HasLongToken(text, limit) ==
    \E a \in 1..Len(text) :
        /\ a + limit <= Len(text)
        /\ \A k \in a..(a + limit) : text[k] \notin {" ", "\t", NL, "-"}

\* C13: if the text of a written cell holds a token with no break point (no
\* whitespace or hyphen) that is longer than the cell's effective width minus
\* 2, String fails with BadWrap and returns no text.
C13_BadWrap ==
    ( /\ ret.op = "String"
      /\ \E s \in Stored :
             HasLongToken(cells[s[1] + 1][s[2] + 1].Text, EffectiveWidth(s) - 2) )
    => ret.err = ErrBadWrap /\ ret.text = <<>>

\* String has just failed with BadWrap on a table in which a cell of a column
\* of width 3 holds the word "AB".
C13_Witness ==
    /\ ret.op = "String"
    /\ ret.err = ErrBadWrap
    /\ \E s \in Stored :
           /\ cells[s[1] + 1][s[2] + 1].Text = <<"A", "B">>
           /\ EffectiveWidth(s) = 3

\* The slots (row, column), from 0, of the rendered rows that no stored cell's
\* span covers: each holds a stored cell or an empty one.
OpenSlots ==
    { s \in (0..(Len(cells) - 1)) \X (0..(Len(config.Columns) - 1)) :
          ~ShadowedBySpan(s[1], s[2]) }

\* The height a row (from 0) without row spans should have: the largest
\* wrapped line count among its cells, and at least 1.
ExpectedRowHeight(i) ==
    CHOOSE h \in 1..(Len(TextLines) + 1) :
        /\ \A s \in OpenSlots : s[1] = i => WrappedLines(s) <= h
        /\ h = 1 \/ \E s \in OpenSlots : s[1] = i /\ WrappedLines(s) = h

RECURSIVE ExpectedLineCount(_)
ExpectedLineCount(i) ==
    IF i >= Len(cells) THEN 1 ELSE ExpectedRowHeight(i) + 1 + ExpectedLineCount(i + 1)

\* Line k (from 1) of the rectangle of the cell at slot s, between its
\* borders: one space, the k-th wrapped line and spaces to the right border,
\* or spaces alone below the last wrapped line.
CellLineIsPadded(s, k) ==
    LET ls == lines(s[2], cells[s[1] + 1][s[2] + 1], config.Columns).lines
        line == IF k <= Len(ls) THEN <<" ">> \o ls[k] ELSE <<>>
    IN SubSeq(TextLines[RectTop(s) + k], RectLeft(s) + 1, RectRight(s) - 1)
       = line \o Make(EffectiveWidth(s) - Len(line), " ")

\* C14: whenever String returns text, every line of it is exactly
\* 1 + sum over columns of (columnWidth + 1) characters long, and in a table
\* without row spans the text has exactly 1 + sum over rows of (rowHeight + 1)
\* lines, a row's height being the largest wrapped line count among its cells
\* and at least 1; a cell with fewer lines than its row's height is padded
\* with blank lines below its text.
C14_Dimensions ==
    (ret.op = "String" /\ ret.err = Nil) =>
        /\ \A n \in 1..Len(TextLines) :
               Len(TextLines[n]) = BoundaryAt(Len(config.Columns))
        /\ Len(SeparatorLines) = Len(cells) + 1
        /\ (\A s \in Stored : cells[s[1] + 1][s[2] + 1].RowSpan = 0) =>
               /\ Len(TextLines) = ExpectedLineCount(0)
               /\ \A s \in OpenSlots :
                      /\ RectHeight(s) = ExpectedRowHeight(s[1])
                      /\ \A k \in 1..RectHeight(s) : CellLineIsPadded(s, k)

\* A table without row spans has been rendered in which a row is four lines
\* high and holds a cell of one line.
C14_Witness ==
    /\ ret.op = "String"
    /\ ret.err = Nil
    /\ \A s \in Stored : cells[s[1] + 1][s[2] + 1].RowSpan = 0
    /\ \E s \in OpenSlots, t \in OpenSlots :
           s[1] = t[1] /\ WrappedLines(s) = 4 /\ WrappedLines(t) = 1

\* The Writer's last row, the last row of w.cells, has no written slot and
\* no shadowed slot.
LastRowIsEmpty ==
    /\ Len(cells) >= 1
    /\ Len(written) >= Len(cells) /\ Len(shadowed) >= Len(cells)
    /\ \A j \in 1..Len(config.Columns) :
           ~written[Len(cells)][j] /\ ~shadowed[Len(cells)][j]

\* Row i (from 1) of w.cells has a written or a shadowed slot.
RowIsUsed(i) ==
    \E j \in 1..Len(config.Columns) : written[i][j] \/ shadowed[i][j]

\* The same table without its last row.
WithoutLastRow == [W EXCEPT !.cells = SubSeq(cells, 1, Len(cells) - 1)]

\* The number of row blocks of a text: its separator lines but the top one.
RowBlocks(text) ==
    LET ls == Split(text, NL)
    IN Cardinality({ n \in 1..(Len(ls) - 1) : IsSeparatorLine(ls[n]) }) - 1

BadColumnSpec ==
    \/ Len(config.Columns) = 0
    \/ \E j \in 1..Len(config.Columns) : config.Columns[j] < 3

\* C16: NewWriter(config) fails with InvalidColumnSpec exactly when config
\* has no column or a column narrower than 3; otherwise it succeeds with a
\* Writer on row 0 that has one row of empty cells, none written or shadowed.
C16_NewWriter ==
    ret.op = "NewWriter" =>
        /\ ret.err = ErrInvalidColumnSpec <=> BadColumnSpec
        /\ ~BadColumnSpec =>
               /\ ret.err = Nil
               /\ currentRow = 0
               /\ cells = << Make(Len(config.Columns), ZeroCell) >>
               /\ written = << Make(Len(config.Columns), FALSE) >>
               /\ shadowed = << Make(Len(config.Columns), FALSE) >>

\* NewWriter has rejected a configuration whose second column is too narrow.
C16_Witness ==
    /\ ret.op = "NewWriter" /\ ret.err = ErrInvalidColumnSpec
    /\ Len(config.Columns) = 2
    /\ config.Columns[1] >= 3 /\ config.Columns[2] < 3

\* The row block the rendered table closes with a '=' separator, 0 when it
\* has none: the Writer draws '=' below row NumHeaderRows - 1 when the table
\* has that row (C10).
HeaderBlock ==
    IF config.NumHeaderRows >= 1 /\ config.NumHeaderRows <= Len(cells)
    THEN config.NumHeaderRows ELSE 0

\* C17 as stated: reading a rendered table whose k-th row block is closed by
\* a '=' separator (every other separator being '-') yields every row without
\* error and leaves NumHeaderRows = k in the Config; reading a table without
\* a '=' separator leaves NumHeaderRows = 0.
C17_AsStated ==
    rstate # "none" =>
        /\ (ret.op = "Read" /\ ~done) => ret.err = Nil
        /\ done => /\ Len(got) = Len(cells)
                   /\ rconfig.NumHeaderRows = HeaderBlock

\* The widths of the segments of a separator line: the lengths of the pieces
\* between its '+' characters.
SegmentWidths(line) ==
    LET parts == Split(line, "+")
    IN [k \in 1..(Len(parts) - 2) |-> Len(parts[k + 1])]

\* A Read iteration has just reached the end of the input without an error.
ReachedEnd == ret.op = "ReadEnd" /\ ret.err = Nil /\ scanner.tokens = <<>>

\* C18: GetConfig() succeeds only once a Read() iteration has reached the end
\* of the input without error, and fails with ReaderNotDone in every other
\* state of the Reader (before any Read(), after the consumer stopped early,
\* after Read() yielded an error); the Reader becomes done in no other way
\* and stays done; the column widths it returns are the segment widths of
\* the first separator line of the input.
C18_GetConfig ==
    [][ /\ done' => (done \/ ReachedEnd')
        /\ (done \/ ReachedEnd') => done'
        /\ ret'.op = "GetConfig" =>
               ret'.err = IF done' THEN Nil ELSE ErrReaderNotDone
        /\ (rstate = "none" /\ rstate' # "none") =>
               rconfig'.Columns = SegmentWidths(ScanLines(ret.text)[1])
        /\ rstate # "none" => rconfig'.Columns = rconfig.Columns
      ]_vars

\* GetConfig() has succeeded on a drained table of two columns, one row read.
C18_Witness ==
    /\ ret.op = "GetConfig" /\ ret.err = Nil
    /\ done
    /\ numRows >= 1
    /\ Len(rconfig.Columns) = 2

\* A step in which Read() yields a row: the row is the last one of got'.
YieldsRow == Len(got') = Len(got) + 1

\* The first line of the row block the next Read() decodes: the Reader's
\* scanner stands on a separator line, and the block starts on the next line.
FirstLine == scanner.tokens[1]

\* The number of consecutive column boundaries to the right of column i (from
\* 1) at which the line has a character other than '|'.
RECURSIVE OpenBoundaries(_, _)
OpenBoundaries(line, i) ==
    IF i >= Len(config.Columns) \/ line[BoundaryAt(i)] = "|" THEN 0
    ELSE 1 + OpenBoundaries(line, i + 1)

RECURSIVE SumSpans(_)
SumSpans(row) ==
    IF row = <<>> THEN 0
    ELSE (IF Head(row) = NilCell THEN 0 ELSE 1 + Head(row)[1].ColSpan) + SumSpans(Tail(row))

\* The shape the claim gives a row decoded from a block with this first line.
RowShape(row, line) ==
    LET N == Len(config.Columns)
    IN /\ Len(row) = N
       /\ \A i \in 1..N :
              row[i] # NilCell =>
                  LET s == row[i][1].ColSpan
                  IN /\ i + s <= N
                     /\ \A k \in 1..s : row[i + k] = NilCell
                     /\ i + s < N => row[i + s + 1] # NilCell
                     /\ s = OpenBoundaries(line, i)
       /\ SumSpans(row) = N

\* C19: every row Read() yields has one entry per column; a non-nil entry at
\* column i with ColSpan = s is followed by exactly s nil entries, s is the
\* number of consecutive column boundaries right of column i at which the
\* first line of the row block has no '|', and the (1 + ColSpan) of the
\* non-nil entries sum to the number of columns.
C19_RowShape ==
    [][YieldsRow => RowShape(got'[Len(got')], FirstLine)]_vars

\* Read() has yielded a row whose first cell spans both columns, below a row
\* of two cells.
C19_Witness ==
    /\ ret.op = "Read" /\ ret.err = Nil
    /\ Len(got) = 2
    /\ got[1][1] # NilCell /\ got[1][2] # NilCell
    /\ got[2][1] # NilCell /\ got[2][1][1].ColSpan = 1
    /\ got[2][2] = NilCell

\* The lines of the row block the next Read() decodes: the lines the scanner
\* has not scanned yet, up to the next separator line.
RECURSIVE Block(_)
Block(tokens) ==
    IF tokens = <<>> \/ IsSeparatorLine(Head(tokens)) THEN <<>>
    ELSE <<Head(tokens)>> \o Block(Tail(tokens))

\* The text between the left border of column i (from 1) and the right border
\* of column i + s: the characters after the boundary that ends column i - 1
\* and before the boundary that ends column i + s.
TextBetweenBorders(ls, i, s) ==
    readCellContents(ls, BoundaryAt(i - 1), BoundaryAt(i + s) - 1)

\* A step in which Read() decodes a row block.
DecodesBlock ==
    /\ rstate \in {"idle", "reading"}
    /\ ~done
    /\ scanner' # scanner
    /\ Block(scanner.tokens) # <<>>

\* C20 as stated: for equal and unequal column widths, decoding a row block
\* never slices past the end of a line, and the text of every decoded cell at
\* column i with ColSpan = s is read from exactly the characters between the
\* cell's left border and its right border.
C20_AsStated ==
    [][DecodesBlock =>
          /\ ret'.err # Panic
          /\ YieldsRow =>
                 \A i \in 1..Len(config.Columns) :
                     LET row == got'[Len(got')]
                     IN row[i] # NilCell =>
                            row[i][1].Text =
                                TextBetweenBorders(Block(scanner.tokens), i, row[i][1].ColSpan)
      ]_vars

\* The slices of the lines of a block between the borders of its one column,
\* with leading and trailing whitespace removed.
Slices(block) ==
    [k \in 1..Len(block) |-> TrimSpace(SubSeq(block[k], 2, Len(block[k]) - 1))]

\* The lines without the blank ones before the first and after the last
\* non-blank line.
RECURSIVE DropBlankEnds(_)
DropBlankEnds(ss) ==
    IF ss = <<>> THEN ss
    ELSE IF Head(ss) = <<>> THEN DropBlankEnds(Tail(ss))
    ELSE IF ss[Len(ss)] = <<>> THEN DropBlankEnds(SubSeq(ss, 1, Len(ss) - 1))
    ELSE ss

\* No two blank lines follow each other.
SingleBlanks(ss) ==
    \A k \in 1..(Len(ss) - 1) : ~(ss[k] = <<>> /\ ss[k + 1] = <<>>)

\* Consecutive non-blank lines joined by one space, a blank line between two
\* non-blank lines turned into "\n\n".
RECURSIVE JoinLines(_)
JoinLines(ss) ==
    IF ss = <<>> THEN <<>>
    ELSE IF Len(ss) = 1 THEN ss[1]
    ELSE IF ss[2] = <<>> THEN ss[1] \o <<NL, NL>> \o JoinLines(SubSeq(ss, 3, Len(ss)))
    ELSE ss[1] \o <<" ">> \o JoinLines(Tail(ss))

\* C21: the text of a decoded cell is built from the cell's slice of every
\* line of the row block, trimmed: blank lines before the first and after the
\* last non-blank line are dropped, consecutive non-blank lines are joined by
\* one space, and a blank line between two non-blank lines becomes "\n\n".
C21_CellText ==
    [][(YieldsRow /\ SingleBlanks(DropBlankEnds(Slices(Block(scanner.tokens))))) =>
          got'[Len(got')][1][1].Text =
              JoinLines(DropBlankEnds(Slices(Block(scanner.tokens))))]_vars

\* Read() has decoded a block in which a blank line stands between the line
\* of "A" and the line of "B": the text holds a paragraph break.
C21_Witness ==
    /\ ret.op = "Read" /\ ret.err = Nil
    /\ Len(got) = 1
    /\ got[1][1][1].Text = <<"A", NL, NL, "B">>
    /\ scanner.text = BlockSeparator

\* A Writer reached by NewWriter, WriteColumn and NextRow calls: no String()
\* has dropped a row of cells.
Untrimmed == HasWriter /\ Len(cells) = Len(written)

\* C26 as stated: in every Writer state reached by NewWriter, WriteColumn and
\* NextRow calls, a slot is marked shadowed exactly when it lies in the
\* footprint, other than the origin, of a stored cell, and no slot lies in
\* the footprints of two stored cells.
C26_AsStated ==
    Untrimmed =>
        /\ \A r \in 0..(Len(shadowed) - 1), c \in 0..(Len(config.Columns) - 1) :
               shadowed[r + 1][c + 1] <=> ShadowedBySpan(r, c)
        /\ \A s \in Stored, t \in Stored :
               s # t => StoredFootprint(s) \cap StoredFootprint(t) = {}

\* The errors WriteColumn returns.
WriteColumnErrors ==
    {ErrColumnIndexOutOfRange, ErrNegativeSpan, ErrSpanBeyondHeader,
     ErrShadowedCell, ErrOverlappingSpans}

\* C27: a WriteColumn call that returns an error leaves the Writer's cells,
\* written grid, shadowed grid and current row as they were before the call
\* (the call is the step from a state without an error to one in which
\* WriteColumn has returned one).
C27_FailedWriteColumn ==
    [][ (ret.err = Nil /\ ret'.op = "WriteColumn" /\ ret'.err \in WriteColumnErrors)
        => /\ cells' = cells
           /\ written' = written
           /\ shadowed' = shadowed
           /\ currentRow' = currentRow ]_vars

\* A WriteColumn on the second row of a table has failed on a slot that the
\* row span of a cell of the first row shadows.
C27_Witness ==
    /\ ret.op = "WriteColumn" /\ ret.err = ErrShadowedCell
    /\ currentRow = 1
    /\ Len(cells) = 2 /\ Len(written) = 2
    /\ \E s \in Stored : s[1] = 0 /\ cells[1][s[2] + 1].RowSpan > 0

\* C28: in every Writer state reached by NewWriter, WriteColumn and NextRow
\* calls no slot is both written and shadowed: the origin slot of a written
\* cell is shadowed neither by its own span nor by a later write.
C28_WrittenNotShadowed ==
    Untrimmed =>
        \A r \in 1..Len(written), c \in 1..Len(config.Columns) :
            ~(written[r][c] /\ shadowed[r][c])

\* A cell with a row span is stored in the first row and shadows a slot of
\* the second row, in which a later call has written a cell.
C28_Witness ==
    /\ Untrimmed
    /\ ret.op = "WriteColumn" /\ ret.err = Nil
    /\ currentRow = 1
    /\ \E s \in Stored : /\ s[1] = 0
                         /\ cells[1][s[2] + 1].RowSpan > 0
    /\ \E s \in Stored : s[1] = 1
    /\ \E c \in 1..Len(config.Columns) : shadowed[2][c]

\* The three grids have the rows and slots the claim gives them.
GridShape ==
    /\ Len(cells) = currentRow + 1
    /\ Len(written) = currentRow + 1
    /\ Len(shadowed) >= currentRow + 1
    /\ \A r \in 1..Len(cells) : Len(cells[r]) = Len(config.Columns)
    /\ \A r \in 1..Len(written) : Len(written[r]) = Len(config.Columns)
    /\ \A r \in 1..Len(shadowed) : Len(shadowed[r]) = Len(config.Columns)

\* C29: after NewWriter and any WriteColumn and NextRow calls, cells and
\* written have currentRow + 1 rows, shadowed has at least as many, and every
\* row of the three grids has one slot per column; NextRow adds one row to
\* cells and to written, and one to shadowed only when shadowed is not
\* already longer than cells.
C29_GridShape ==
    [][ /\ Untrimmed' => GridShape'
        /\ (Untrimmed /\ ret'.op = "NextRow" /\ currentRow' = currentRow + 1) =>
               /\ Len(cells') = Len(cells) + 1
               /\ Len(written') = Len(written) + 1
               /\ Len(shadowed') = IF Len(shadowed) > Len(cells)
                                   THEN Len(shadowed)
                                   ELSE Len(shadowed) + 1
      ]_vars

\* NextRow has moved to the second row below a cell with a row span, whose
\* write had already extended the shadow grid: the three grids have two rows.
C29_Witness ==
    /\ Untrimmed
    /\ ret.op = "NextRow"
    /\ currentRow = 1
    /\ Len(shadowed) = 2
    /\ \E c \in 1..Len(config.Columns) : written[1][c] /\ cells[1][c].RowSpan = 1

\* C30 as stated: String() on a Writer reached by NewWriter, WriteColumn and
\* NextRow calls leaves cells, written, shadowed and the current row
\* unchanged, a second String() right after it returns the same result, and
\* a WriteColumn on the current row behaves after it as it would have before.
C30_AsStated ==
    [][ (String /\ Untrimmed) =>
            /\ cells' = cells
            /\ written' = written
            /\ shadowed' = shadowed
            /\ currentRow' = currentRow
            /\ StringOf(W').err = ret'.err
            /\ StringOf(W').text = ret'.text
            /\ \A index \in Indexes, cell \in Cells :
                   WriteColumnErr(W', index, cell) = WriteColumnErr(W, index, cell)
      ]_vars

\* The first line of a text, <<>> for the empty text.
FirstLineOf(text) == IF ScanLines(text) = <<>> THEN <<>> ELSE ScanLines(text)[1]

\* A line that is '+' followed by one or more segments, each of at least 3
\* '-' characters and each terminated by '+'.
IsDashSeparator(line) ==
    /\ Len(line) >= 2
    /\ line[1] = "+" /\ line[Len(line)] = "+"
    /\ \A k \in 1..Len(SegmentWidths(line)) : SegmentWidths(line)[k] >= 3
    /\ \A k \in 2..(Len(line) - 1) : line[k] \in {"-", "+"}

\* C24 as stated: NewReader succeeds exactly when the first line of the input
\* is '+' followed by one or more segments of at least 3 '-', each ended by
\* '+', and then the Reader's columns have the segment widths in order; for
\* any other input it fails with MalformedTable.
C24_AsStated ==
    [][ (ret.op = "Init" /\ ret'.op = "NewReader") =>
            IF ScanLines(ret.text) # <<>> /\ IsDashSeparator(FirstLineOf(ret.text))
            THEN /\ ret'.err = Nil
                 /\ rstate' = "idle"
                 /\ rconfig'.Columns = SegmentWidths(FirstLineOf(ret.text))
            ELSE /\ ret'.err = ErrMalformedTable
                 /\ rstate' = "none"
      ]_vars

\* A step in which a Read() iteration scans lines of the input.
ScansLines ==
    /\ rstate \in {"idle", "reading"}
    /\ ~done
    /\ ret'.op \in {"Read", "ReadEnd"}
    /\ scanner' # scanner

\* The lines the step scans.
Consumed == SubSeq(scanner.tokens, 1, Len(scanner.tokens) - Len(scanner'.tokens))

\* A line that starts and ends with '+' and whose segments differ in number
\* or in width from the first separator of the input.
IsMismatched(line) ==
    /\ Len(line) >= 1
    /\ line[1] = "+" /\ line[Len(line)] = "+"
    /\ SegmentWidths(line) # rconfig.Columns

\* C22 as stated: a Read() iteration that meets, anywhere after the first
\* separator and including on the last line, a line that starts and ends with
\* '+' and whose segments differ in number or width from the first separator
\* yields a MalformedTable error instead of completing normally.
C22_AsStated ==
    [][ (ScansLines /\ \E k \in 1..Len(Consumed) : IsMismatched(Consumed[k])) =>
            (ret'.op = "Read" /\ ret'.err = ErrMalformedTable) ]_vars

\* The lines hold no separator with the columns of the first one.
NoSeparatorIn(ls) ==
    \A k \in 1..Len(ls) : ~(IsDashSeparator(ls[k]) /\ SegmentWidths(ls[k]) = rconfig.Columns)

\* C23 as stated: a Read() iteration that finds a non-blank line after the
\* last valid separator yields a MalformedTable error and the Reader does not
\* become done; Read() ends normally only when the last separator is followed
\* by the end of the input or by one blank last line.
C23_AsStated ==
    [][ ScansLines =>
            /\ ( /\ NoSeparatorIn(scanner.tokens)
                 /\ \E k \in 1..Len(scanner.tokens) : scanner.tokens[k] # <<>> ) =>
                   (ret'.op = "Read" /\ ret'.err = ErrMalformedTable /\ ~done')
            /\ done' => scanner.tokens \in { <<>>, << <<>> >> }
      ]_vars

====
